---- MODULE Spec2Model ----
(***************************************************************************)
(* Model of pkg/healthcheck/handler.go: the atomic overall status cell,    *)
(* the receptor channel, the reporter callbacks that send into it, the     *)
(* monitor goroutine that folds component reports into the overall status, *)
(* and the HTTP surface: Serve, the probe handler, Close and the goroutine *)
(* that runs the server.                                                   *)
(***************************************************************************)
EXTENDS Integers, Naturals, Sequences, FiniteSets, TLC

\* ---------------------------------------------------------------- bounds
MaxComponent == 2      \* components Init .. MaxComponent are reported on
MaxDesired   == 2      \* longest desired slice handed to SetDesired
MaxCap       == 1      \* largest receptor buffer capacity
MaxCalls     == 2      \* reporter invocations made in a run, over all goroutines
NumReporters == 2      \* concurrently reporting goroutines

\* ------------------------------------------------------ program constants
Unavailable == 0
Ready       == 1
Broken      == 2
Fail        == 3
Statuses    == {Unavailable, Ready, Broken, Fail}
ReportStatuses == {Unavailable, Ready}

Init_c      == 1
Components  == Init_c .. MaxComponent

NilChan     == -1      \* hc.receptor left nil: no SetReceptor option
NoMsg       == [comp |-> 0, stat |-> 0, rep |-> 0, seq |-> 0]

StatusServiceUnavailable == 503
StatusNoContent          == 204
NotAvailableBody == "Server not available"
NoResp      == [code |-> -1, body |-> ""]   \* no request in hand

Reporters   == 1 .. NumReporters

VARIABLES
  state,      \* hc.state, the int32 behind atomic Load/Store
  comstat,    \* hc.comstat, map[Component]Status
  desired,    \* hc.desired, []Component
  chanCap,    \* cap(hc.receptor), or NilChan
  buf,        \* buffered elements of hc.receptor, oldest first
  sendq,      \* senders parked on hc.receptor with their element, oldest first
  closed,     \* hc.receptor has been closed by its owner
  pcMon,      \* position of the monitor goroutine
  msg,        \* the loop variable of monitor
  pcRep,      \* position of each reporting goroutine
  calls,      \* reporter invocations made so far by each goroutine
  initial,    \* history: the state argument of New
  lastWrite,  \* history: who stored hc.state last, and the Status it passed
  arrivals,   \* history: <<rep, seq>> of the elements accepted by the channel
  processed,  \* history: <<rep, seq>> of the elements received by monitor
  srv,        \* hc.server and the goroutine running hc.server.Serve
  resp,       \* the response the probe handler wrote for the request in hand
  closedAt,   \* history: Len(arrivals) when Close() returned, -1 before
  reported    \* history: per component, the status of its latest report sent

\* the fields and goroutines of the aggregation side
engine == <<comstat, desired, chanCap, buf, sendq, closed, pcMon, msg,
            pcRep, calls, initial, arrivals, processed, reported>>

\* the HTTP surface
http == <<srv, resp, closedAt>>

vars == <<state, comstat, desired, chanCap, buf, sendq, closed, pcMon, msg,
          pcRep, calls, initial, lastWrite, arrivals, processed,
          srv, resp, closedAt, reported>>

\* ------------------------------------------------------------- helpers
Range(s) == {s[i] : i \in DOMAIN s}

\* the desired slices tried: the first k components, in declaration order
DesiredSlices == {[i \in 1..k |-> Init_c + i - 1] : k \in 0..MaxDesired}

\* int32(state): conversion of the int-typed Status to the 32-bit cell
ToInt32(s) ==
  LET lo == s % 65536
      hi == (s \div 65536) % 65536
  IN  IF hi >= 32768 THEN (hi - 65536) * 65536 + lo ELSE hi * 65536 + lo

\* Status(v): widening of the 32-bit cell back to Status
ToStatus(v) == v

\* the state field of the HealthCheck literal in New: int32(state)
NewState_ignoresArgument(s) == Unavailable

NewState(s) == ToInt32(s)

\* atomic.StoreInt32(&hc.state, int32(state))
StoreInt32_stickyBroken(old, s) == IF old = Broken THEN old ELSE ToInt32(s)

StoreInt32(old, s) == ToInt32(s)

\* hc.Get()
Get == ToStatus(state)

\* hc.comstat[c] as an rvalue: the zero Status for a missing key
MapGet_missingIsReady(m, c) == IF c \in DOMAIN m THEN m[c] ELSE Ready

MapGet(m, c) == IF c \in DOMAIN m THEN m[c] ELSE 0

\* hc.comstat[k] = v
MapPut_keepsFirst(m, k, v) ==
  IF k \in DOMAIN m THEN m
  ELSE [c \in (DOMAIN m) \cup {k} |-> IF c = k THEN v ELSE m[c]]

MapPut(m, k, v) == [c \in (DOMAIN m) \cup {k} |-> IF c = k THEN v ELSE m[c]]

\* the for/break loop of checkComponent, from index i with ok still true
CheckLoop_emptyNotOk(d, m, i) ==
  /\ Len(d) > 0
  /\ \A k \in i..Len(d) : MapGet(m, d[k]) = Ready

CheckLoop_firstOnly(d, m, i) ==
  IF i > Len(d) THEN TRUE ELSE MapGet(m, d[i]) = Ready

RECURSIVE CheckLoop(_, _, _)
CheckLoop(d, m, i) ==
  IF i > Len(d) THEN TRUE
  ELSE IF MapGet(m, d[i]) # Ready THEN FALSE
  ELSE CheckLoop(d, m, i + 1)

\* the Status checkComponent passes to hc.Set
CheckComponent_failWhenNotReady(d, m) ==
  IF CheckLoop(d, m, 1) THEN Ready ELSE Fail

CheckComponent_scansTable(d, m) ==
  IF \A c \in DOMAIN m : m[c] = Ready THEN Ready ELSE Unavailable

CheckComponent(d, m) == IF CheckLoop(d, m, 1) THEN Ready ELSE Unavailable

\* hc.receptor == nil
NoReceptor_noNilCheck == FALSE

NoReceptor == chanCap = NilChan

\* range over the channel ends: closed and drained
RangeDone_onClose == closed

RangeDone == closed /\ buf = <<>> /\ sendq = <<>>

\* one receive from the channel holding buffer b and parked senders q:
\* the oldest buffered element, whose slot goes to the oldest parked sender;
\* with nothing buffered, the oldest parked sender's element
ChanRecv_losesParked(b, q) ==
  IF b # <<>>
  THEN IF q # <<>>
       THEN [elem |-> Head(b), buf |-> Tail(b),
             sendq |-> Tail(q), woken |-> {Head(q).rep}]
       ELSE [elem |-> Head(b), buf |-> Tail(b), sendq |-> q, woken |-> {}]
  ELSE [elem |-> Head(q), buf |-> b, sendq |-> Tail(q), woken |-> {Head(q).rep}]

ChanRecv_senderFirst(b, q) ==
  IF q # <<>>
  THEN [elem |-> Head(q), buf |-> b, sendq |-> Tail(q), woken |-> {Head(q).rep}]
  ELSE [elem |-> Head(b), buf |-> Tail(b), sendq |-> q, woken |-> {}]

ChanRecv(b, q) ==
  IF b # <<>>
  THEN IF q # <<>>
       THEN [elem |-> Head(b), buf |-> Append(Tail(b), Head(q)),
             sendq |-> Tail(q), woken |-> {Head(q).rep}]
       ELSE [elem |-> Head(b), buf |-> Tail(b), sendq |-> q, woken |-> {}]
  ELSE [elem |-> Head(q), buf |-> b, sendq |-> Tail(q), woken |-> {Head(q).rep}]

Tag(m) == <<m.rep, m.seq>>

RECURSIVE SumUpTo(_, _)
SumUpTo(f, n) == IF n = 0 THEN 0 ELSE f[n] + SumUpTo(f, n - 1)

TotalCalls == SumUpTo(calls, NumReporters)

\* ------------------------------------------------------------------ New
Init ==
  /\ initial \in Statuses
  /\ state = NewState(initial)
  /\ comstat = <<>>
  /\ desired \in DesiredSlices
  /\ chanCap \in {NilChan} \cup (0..MaxCap)
  /\ buf = <<>>
  /\ sendq = <<>>
  /\ closed = FALSE
  /\ pcMon = "recv"
  /\ msg = NoMsg
  /\ pcRep = [r \in Reporters |-> "idle"]
  /\ calls = [r \in Reporters |-> 0]
  /\ lastWrite = [by |-> "New", arg |-> initial]
  /\ arrivals = <<>>
  /\ processed = <<>>
  /\ srv = "none"
  /\ resp = NoResp
  /\ closedAt = -1
  /\ reported = <<>>

\* ------------------------------------------------------------------ Set
\* a direct hc.Set(s) by the owner of the HealthCheck
Set(s) ==
  /\ state' = StoreInt32(state, s)
  /\ lastWrite' = [by |-> "Set", arg |-> s]
  /\ UNCHANGED <<comstat, desired, chanCap, buf, sendq, closed, pcMon, msg,
                 pcRep, calls, initial, arrivals, processed>>
  /\ UNCHANGED <<http, reported>>

\* ------------------------------------------------- reporter callbacks
\* the callback with no receptor: warn and return
ReportDropped(r, c, s) ==
  /\ pcRep[r] = "idle"
  /\ TotalCalls < MaxCalls
  /\ NoReceptor
  /\ calls' = [calls EXCEPT ![r] = @ + 1]
  /\ UNCHANGED <<state, comstat, desired, chanCap, buf, sendq, closed, pcMon,
                 msg, pcRep, initial, lastWrite, arrivals, processed>>
  /\ UNCHANGED <<http, reported>>

\* the callback reaching hc.receptor <- ComponentStatus{stat, comp}
ReportSend_writesTable(r, c, s) ==
  /\ pcRep[r] = "idle"
  /\ TotalCalls < MaxCalls
  /\ ~NoReceptor
  /\ calls' = [calls EXCEPT ![r] = @ + 1]
  /\ comstat' = MapPut(comstat, c, s)
  /\ UNCHANGED <<state, desired, chanCap, buf, sendq, closed, pcMon, msg,
                 pcRep, initial, lastWrite, arrivals, processed, reported>>
  /\ UNCHANGED http

ReportSend(r, c, s) ==
  /\ pcRep[r] = "idle"
  /\ TotalCalls < MaxCalls
  /\ ~NoReceptor
  /\ calls' = [calls EXCEPT ![r] = @ + 1]
  /\ LET m == [comp |-> c, stat |-> s, rep |-> r, seq |-> calls[r] + 1]
     IN  IF chanCap = NilChan
         THEN \* send on a nil channel parks the goroutine forever
              /\ pcRep' = [pcRep EXCEPT ![r] = "blocked"]
              /\ UNCHANGED <<buf, sendq, arrivals>>
         ELSE IF closed
         THEN \* send on closed channel
              /\ pcRep' = [pcRep EXCEPT ![r] = "panicked"]
              /\ UNCHANGED <<buf, sendq, arrivals>>
         ELSE IF Len(buf) < chanCap
         THEN /\ buf' = Append(buf, m)
              /\ arrivals' = Append(arrivals, Tag(m))
              /\ UNCHANGED <<sendq, pcRep>>
         ELSE /\ sendq' = Append(sendq, m)
              /\ arrivals' = Append(arrivals, Tag(m))
              /\ pcRep' = [pcRep EXCEPT ![r] = "blocked"]
              /\ UNCHANGED buf
  /\ UNCHANGED <<state, comstat, desired, chanCap, closed, pcMon, msg,
                 initial, lastWrite, processed>>
  /\ reported' = IF chanCap = NilChan \/ closed
                 THEN reported
                 ELSE [k \in (DOMAIN reported) \cup {c} |->
                         IF k = c THEN s ELSE reported[k]]
  /\ UNCHANGED http

\* close(receptor) by the owner of the channel: parked senders panic
CloseReceptor ==
  /\ ~NoReceptor
  /\ ~closed
  /\ closed' = TRUE
  /\ pcRep' = [r \in Reporters |->
                 IF \E i \in DOMAIN sendq : sendq[i].rep = r
                 THEN "panicked" ELSE pcRep[r]]
  /\ arrivals' = SubSeq(arrivals, 1, Len(arrivals) - Len(sendq))
  /\ sendq' = <<>>
  /\ UNCHANGED <<state, comstat, desired, chanCap, buf, pcMon, msg, calls,
                 initial, lastWrite, processed>>
  /\ UNCHANGED <<http, reported>>

\* -------------------------------------------------------------- monitor
\* for msg := range hc.receptor: one receive
MonitorRecv ==
  /\ pcMon = "recv"
  /\ chanCap # NilChan
  /\ buf # <<>> \/ sendq # <<>>
  /\ LET rcv == ChanRecv(buf, sendq)
     IN  /\ msg' = rcv.elem
         /\ processed' = Append(processed, Tag(rcv.elem))
         /\ buf' = rcv.buf
         /\ sendq' = rcv.sendq
         /\ pcRep' = [r \in Reporters |->
                        IF r \in rcv.woken THEN "idle" ELSE pcRep[r]]
  /\ pcMon' = "upsert"
  /\ UNCHANGED <<state, comstat, desired, chanCap, closed, calls, initial,
                 lastWrite, arrivals>>
  /\ UNCHANGED <<http, reported>>

\* the range loop ends once the channel is closed and drained
MonitorExit ==
  /\ pcMon = "recv"
  /\ chanCap # NilChan
  /\ RangeDone
  /\ pcMon' = "done"
  /\ UNCHANGED <<state, comstat, desired, chanCap, buf, sendq, closed, msg,
                 pcRep, calls, initial, lastWrite, arrivals, processed>>
  /\ UNCHANGED <<http, reported>>

\* hc.comstat[msg.comp] = msg.stat
MonitorUpsert ==
  /\ pcMon = "upsert"
  /\ comstat' = MapPut(comstat, msg.comp, msg.stat)
  /\ pcMon' = "check"
  /\ UNCHANGED <<state, desired, chanCap, buf, sendq, closed, msg, pcRep,
                 calls, initial, lastWrite, arrivals, processed>>
  /\ UNCHANGED <<http, reported>>

\* hc.checkComponent(): scan of desired, then hc.Set(Ready / Unavailable)
MonitorCheck ==
  /\ pcMon = "check"
  /\ LET s == CheckComponent(desired, comstat)
     IN  /\ state' = StoreInt32(state, s)
         /\ lastWrite' = [by |-> "monitor", arg |-> s]
  /\ msg' = NoMsg
  /\ pcMon' = "recv"
  /\ UNCHANGED <<comstat, desired, chanCap, buf, sendq, closed, pcRep, calls,
                 initial, arrivals, processed>>
  /\ UNCHANGED <<http, reported>>

Monitor == MonitorRecv \/ MonitorExit \/ MonitorUpsert \/ MonitorCheck

Next ==
  \/ \E s \in Statuses : Set(s)
  \/ \E r \in Reporters, c \in Components, s \in ReportStatuses : ReportDropped(r, c, s)
  \/ \E r \in Reporters, c \in Components, s \in ReportStatuses : ReportSend(r, c, s)
  \/ CloseReceptor
  \/ MonitorRecv
  \/ MonitorExit
  \/ MonitorUpsert
  \/ MonitorCheck

Spec == Init /\ [][Next]_vars

\* the monitor goroutine is scheduled fairly; callers and the owner are not
FairSpec == Spec /\ WF_vars(Monitor)

\* --------------------------------------------------------- HTTP surface
\* hc.mapping[s]: the two entries New puts in the map, 0 for a missing key
MappingGet_readyIsOK(s) ==
  IF s = Unavailable THEN StatusServiceUnavailable
  ELSE IF s = Ready THEN 200
  ELSE 0

MappingGet(s) ==
  IF s = Unavailable THEN StatusServiceUnavailable
  ELSE IF s = Ready THEN StatusNoContent
  ELSE 0

\* the ResponseWriter sends a body only for codes that may carry one
BodyAllowed(code) == ~(code \in 100..199 \/ code = 204 \/ code = 304)

\* what the "/" handler can answer when Get returns s: WriteHeader of the
\* mapped code, then Write of the fixed text; a code outside 100..999 is no
\* HTTP status, and whether the text still goes out depends on the library
HandlerResponses(s) ==
  LET code == MappingGet(s)
  IN  IF code < 100 \/ code > 999
      THEN {[code |-> code, body |-> b] : b \in {"", NotAvailableBody}}
      ELSE IF BodyAllowed(code)
      THEN {[code |-> code, body |-> NotAvailableBody]}
      ELSE {[code |-> code, body |-> ""]}

\* what Close() does to the receptor: nothing, it only shuts the server down
ReceptorAfterClose_closesIt(cl) == TRUE

ReceptorAfterClose(cl) == cl

\* Serve(port) with a successful net.Listen: serveWithListener starts the
\* goroutine that runs hc.server.Serve(l)
Serve ==
  /\ srv = "none"
  /\ srv' = "serving"
  /\ UNCHANGED <<state, lastWrite, engine, resp, closedAt>>

\* one request to "/" handled: Get, WriteHeader, Write
ProbeServe ==
  /\ srv = "serving"
  /\ resp = NoResp
  /\ resp' \in HandlerResponses(Get)
  /\ UNCHANGED <<state, lastWrite, engine, srv, closedAt>>

\* the response has gone out
ProbeDone ==
  /\ resp # NoResp
  /\ resp' = NoResp
  /\ UNCHANGED <<state, lastWrite, engine, srv, closedAt>>

\* hc.server.Serve(l) returns because the listener failed
ServeFault ==
  /\ srv = "serving"
  /\ resp = NoResp
  /\ srv' = "faulted"
  /\ UNCHANGED <<state, lastWrite, engine, resp, closedAt>>

\* Close(): hc.server.Shutdown waits for the request in hand, after which
\* hc.server.Serve(l) returns http.ErrServerClosed
Close ==
  /\ srv = "serving"
  /\ resp = NoResp
  /\ srv' = "shutdown"
  /\ closedAt' = Len(arrivals)
  /\ closed' = ReceptorAfterClose(closed)
  /\ UNCHANGED <<state, lastWrite, comstat, desired, chanCap, buf, sendq,
                 pcMon, msg, pcRep, calls, initial, arrivals, processed, resp,
                 reported>>

\* the serve goroutine after hc.server.Serve(l) returned: err != nil for a
\* fault and for http.ErrServerClosed alike, so hc.Set(Broken)
ServeExit ==
  /\ srv \in {"faulted", "shutdown"}
  /\ state' = StoreInt32(state, Broken)
  /\ lastWrite' = [by |-> "serve", arg |-> Broken]
  /\ srv' = IF srv = "faulted" THEN "exitFault" ELSE "exitClosed"
  /\ UNCHANGED <<engine, resp, closedAt>>

\* a HealthCheck built Unavailable or Fail, with a receptor of capacity MaxCap
\* or with none
HttpInit ==
  /\ Init
  /\ initial \in {Unavailable, Fail}
  /\ chanCap \in {NilChan, MaxCap}

HttpNext ==
  \/ Next
  \/ Serve
  \/ ProbeServe
  \/ ProbeDone
  \/ ServeFault
  \/ Close
  \/ ServeExit

\* the HealthCheck with its HTTP surface
HttpSpec == HttpInit /\ [][HttpNext]_vars

\* the same, with the monitor goroutine scheduled fairly
FairHttpSpec == HttpSpec /\ WF_vars(Monitor)

\* ---------------------------------------------------------------- claims
\* the step in which monitor finishes an event: checkComponent's hc.Set
MonitorFinishes == pcMon = "check" /\ pcMon' = "recv"

\* every desired component has a table entry, and that entry is Ready
AllDesiredReady ==
  \A c \in Range(desired) : c \in DOMAIN comstat /\ comstat[c] = Ready

\* C1: right after monitor has finished an event (upsert, then rescan) the
\* overall status is Ready if every desired component has a table entry
\* equal to Ready and Unavailable otherwise; a desired component without an
\* entry counts as not Ready.
C1_Aggregation ==
  [][MonitorFinishes =>
       Get' = IF AllDesiredReady' THEN Ready ELSE Unavailable]_vars

\* monitor has finished an event and both desired components are Ready
C1_Witness ==
  /\ lastWrite.by = "monitor"
  /\ Len(desired) = 2
  /\ processed # <<>>
  /\ Get = Ready

\* C2: a Get after the last Set, with no engine write in between, returns
\* exactly the Status passed to that Set, and always yields a Status.
C2_GetReturnsLastSet ==
  /\ Get \in Statuses
  /\ lastWrite.by = "Set" => Get = lastWrite.arg

\* a direct Set(Broken) is the last write, after monitor processed an event
C2_Witness ==
  /\ lastWrite.by = "Set"
  /\ lastWrite.arg = Broken
  /\ Len(processed) = 1
  /\ pcMon = "recv"

\* C3 as claimed: processing an event of a component outside the desired
\* slice leaves the overall status as it was, in every reachable state.
C3_Original ==
  [][(MonitorFinishes /\ msg.comp \notin Range(desired)) => Get' = Get]_vars

\* C3 as amended: processing an event of a component outside the desired
\* slice leaves the overall status as it was whenever the status was last
\* written by monitor (an earlier event, no direct Set since).
C3_Amended ==
  [][(MonitorFinishes /\ msg.comp \notin Range(desired)
        /\ lastWrite.by = "monitor") => Get' = Get]_vars

\* two events processed, neither for the one desired component
C3_Witness ==
  /\ Len(desired) = 1
  /\ Len(processed) = 2
  /\ pcMon = "recv"
  /\ lastWrite.by = "monitor"
  /\ DOMAIN comstat # {}
  /\ DOMAIN comstat \cap Range(desired) = {}

\* C4 as claimed: with a non-empty desired slice and nothing written since
\* New, Get returns Unavailable.
C4_Original ==
  (desired # <<>> /\ processed = <<>> /\ lastWrite.by = "New")
    => Get = Unavailable

\* C4 as amended: with a non-empty desired slice and nothing written since
\* New, Get returns the initial status passed to New.
C4_Amended ==
  (desired # <<>> /\ lastWrite.by = "New") => Get = initial

\* New(Ready, SetDesired(non-empty)): an event is in progress, none finished
C4_Witness ==
  /\ desired # <<>>
  /\ lastWrite.by = "New"
  /\ initial = Ready
  /\ pcMon = "check"
  /\ Get = Ready

\* C5: with an empty desired slice the overall status keeps the initial
\* value of New until the first event is processed, and is Ready as soon as
\* monitor has finished any event.
C5_EmptyDesired ==
  /\ []((desired = <<>> /\ lastWrite.by = "New") => Get = initial)
  /\ [][(desired = <<>> /\ MonitorFinishes) => Get' = Ready]_vars

\* empty desired slice, started Unavailable, one Unavailable report processed
C5_Witness ==
  /\ desired = <<>>
  /\ initial = Unavailable
  /\ lastWrite.by = "monitor"
  /\ Len(processed) = 1
  /\ \E c \in DOMAIN comstat : comstat[c] = Unavailable
  /\ Get = Ready

\* C6: with a nil receptor a reporter callback returns at once and leaves
\* the overall status and the component table as they were.
C6_NilReceptorNoOp ==
  [][(chanCap = NilChan /\ calls' # calls) =>
       /\ state' = state
       /\ comstat' = comstat
       /\ lastWrite' = lastWrite
       /\ \A r \in Reporters : pcRep'[r] = "idle"]_vars

\* nil receptor, both reporting goroutines have called and returned
C6_Witness ==
  /\ chanCap = NilChan
  /\ \A r \in Reporters : calls[r] > 0 /\ pcRep[r] = "idle"

\* C7: a reporter callback never raises to its caller.
C7_NeverRaises == \A r \in Reporters : pcRep[r] # "panicked"

\* C8: every invocation of a reporter callback eventually returns.
C8_EventuallyReturns ==
  \A r \in Reporters : (pcRep[r] # "idle") ~> (pcRep[r] = "idle")

\* C9 as claimed: once the receptor is closed monitor writes neither the
\* component table nor the overall status.
C9_Original ==
  [][closed => /\ comstat' = comstat
               /\ ~MonitorFinishes]_vars

\* C9 as amended: after the close no new event is accepted; monitor drains
\* the events accepted before the close, then terminates; once terminated
\* it writes neither the component table nor the overall status.
C9_Amended ==
  /\ [][closed => arrivals' = arrivals]_vars
  /\ [](pcMon = "done" => (closed /\ processed = arrivals))
  /\ [][pcMon = "done" =>
          /\ pcMon' = "done"
          /\ comstat' = comstat
          /\ processed' = processed
          /\ lastWrite'.by # "monitor" \/ lastWrite' = lastWrite]_vars
  /\ closed ~> (pcMon = "done")

\* monitor terminated after draining an event that was accepted before the close
C9_Witness ==
  /\ pcMon = "done"
  /\ closed
  /\ Len(processed) = 2
  /\ lastWrite.by = "monitor"

\* C10: monitor receives the events in the order the channel accepted them,
\* so two events of one reporting goroutine are processed in call order.
C10_Fifo ==
  /\ Len(processed) <= Len(arrivals)
  /\ processed = SubSeq(arrivals, 1, Len(processed))
  /\ \A i, j \in DOMAIN processed :
       (i < j /\ processed[i][1] = processed[j][1])
         => processed[i][2] < processed[j][2]

\* both events of one reporting goroutine have been received
C10_Witness ==
  /\ Len(processed) = 2
  /\ processed[1][1] = processed[2][1]
  /\ processed[1][2] = 1
  /\ processed[2][2] = 2

\* the step in which the probe handler answers a request
ProbeAnswers == resp = NoResp /\ resp' # NoResp

\* C11: a probe answered while the overall status is Ready gets 204 with an
\* empty body, one answered while it is Unavailable gets 503 with a
\* non-empty body; the code comes from the value Get returns at that time.
C11_ProbeMapping ==
  [][ProbeAnswers =>
       /\ Get = Ready => (resp'.code = 204 /\ resp'.body = "")
       /\ Get = Unavailable => (resp'.code = 503 /\ resp'.body # "")]_vars

\* a probe answered 204 with no body after monitor aggregated to Ready
C11_Witness ==
  /\ srv = "serving"
  /\ resp = [code |-> 204, body |-> ""]
  /\ lastWrite.by = "monitor"
  /\ Get = Ready

\* C12: a probe answered while the overall status is Broken or Fail gets the
\* default status code 503.
C12_DefaultCode ==
  [][(ProbeAnswers /\ Get \in {Broken, Fail}) => resp'.code = 503]_vars

\* C13: the serve goroutine forces the overall status to Broken exactly when
\* the HTTP surface faulted; a graceful Close() does not make it do so.
C13_BrokenOnlyOnFault ==
  [][(srv' # srv /\ lastWrite'.by = "serve") => srv = "faulted"]_vars

\* the aggregate of a table: Ready iff every desired component is Ready in it
AggregateOf(tab) ==
  IF \A c \in Range(desired) : c \in DOMAIN tab /\ tab[c] = Ready
  THEN Ready ELSE Unavailable

\* the tables that differ from the component table at most at component k
TablesBefore(k) ==
  {[c \in (DOMAIN comstat) \ {k} |-> comstat[c]]}
    \cup {[c \in (DOMAIN comstat) \cup {k} |-> IF c = k THEN v ELSE comstat[c]]
            : v \in Statuses}

\* C14: while the overall status was last written by monitor (no direct Set
\* since) it equals the aggregate of the table as of the last event monitor
\* finished: the aggregate of the current table, except that for the one
\* event in hand the upsert may be done and the status not yet rewritten.
C14_VisibleIsAggregate ==
  lastWrite.by = "monitor" =>
    IF pcMon = "check"
    THEN \E old \in TablesBefore(msg.comp) : Get = AggregateOf(old)
    ELSE Get = AggregateOf(comstat)

\* the lag: the table already says not Ready, readers still see Ready
C14_Witness ==
  /\ lastWrite.by = "monitor"
  /\ pcMon = "check"
  /\ Len(processed) = 2
  /\ Get = Ready
  /\ AggregateOf(comstat) = Unavailable

\* the tags of a sequence of channel elements
TagSeq(s) == [i \in DOMAIN s |-> Tag(s[i])]

\* C15: every event a reporter callback got into the open receptor is
\* consumed by monitor exactly once: an accepted event is either received
\* already or still held by the channel in order, none is received twice,
\* and in the end all of them have been received.
C15_ExactlyOnce ==
  /\ [](arrivals = processed \o TagSeq(buf) \o TagSeq(sendq))
  /\ [](\A i, j \in DOMAIN processed : i # j => processed[i] # processed[j])
  /\ [][pcMon = "upsert" /\ pcMon' = "check" =>
          /\ processed' = processed
          /\ msg.comp \in DOMAIN comstat'
          /\ comstat'[msg.comp] = msg.stat]_vars
  /\ <>[](processed = arrivals /\ pcMon \in {"recv", "done"})

\* the events of two concurrent reporters, one of them parked, all consumed
C15_Witness ==
  /\ chanCap = 0
  /\ Len(processed) = 2
  /\ processed[1][1] # processed[2][1]
  /\ processed = arrivals
  /\ pcMon = "recv"
  /\ Cardinality(DOMAIN comstat) = 2

\* some event was reported, the receptor is open, and the latest report of
\* every desired component says Ready
LastReportsReady ==
  /\ ~closed
  /\ DOMAIN reported # {}
  /\ \A c \in Range(desired) : c \in DOMAIN reported /\ reported[c] = Ready

\* monitor has received every accepted event and finished it
CaughtUp == processed = arrivals /\ pcMon \in {"recv", "done"}

\* C16: once the latest report of every desired component says Ready (the
\* receptor staying open), a fairly scheduled monitor brings Get to Ready
\* unless a direct Set comes after it, and Get then stays Ready until a
\* further event is reported or Set is called.
C16_EventuallyReady ==
  /\ LastReportsReady ~>
       \/ CaughtUp /\ Get = Ready
       \/ lastWrite.by = "Set"
       \/ ~LastReportsReady
  /\ [][(CaughtUp /\ LastReportsReady /\ lastWrite.by = "monitor") =>
          \/ Get' = Ready
          \/ lastWrite'.by = "Set"]_vars

\* Unavailable then Ready reported for the one desired component, both
\* processed, and Get answers Ready
C16_Witness ==
  /\ LastReportsReady
  /\ CaughtUp
  /\ Len(desired) = 1
  /\ Len(processed) = 2
  /\ Cardinality(DOMAIN comstat) = 1
  /\ lastWrite.by = "monitor"
  /\ Get = Ready

\* Close() has returned
ServerShut == srv \in {"shutdown", "exitClosed"}

\* C17: Close() does not stop the aggregation engine: the Close step leaves
\* monitor and the receptor as they were, monitor ends only by a close of the
\* receptor, and events reported after Close() are received, upserted and
\* aggregated as before.
C17_CloseKeepsEngine ==
  /\ [][(srv = "serving" /\ srv' = "shutdown") =>
          /\ pcMon' = pcMon
          /\ closed' = closed
          /\ buf' = buf /\ sendq' = sendq
          /\ comstat' = comstat /\ state' = state]_vars
  /\ []((ServerShut /\ pcMon = "done") => closed)
  /\ [][(ServerShut /\ pcMon = "upsert" /\ pcMon' = "check") =>
          (msg.comp \in DOMAIN comstat' /\ comstat'[msg.comp] = msg.stat)]_vars
  /\ [][(ServerShut /\ MonitorFinishes) => Get' = AggregateOf(comstat')]_vars
  /\ (closedAt >= 0 /\ Len(arrivals) > closedAt) ~>
       (Len(processed) > closedAt \/ Len(arrivals) <= closedAt)

\* an event reported after Close() returned has been processed: it made the
\* aggregate Ready, over the Broken the serve goroutine had stored
C17_Witness ==
  /\ srv = "exitClosed"
  /\ closedAt = 0
  /\ Len(processed) = 1
  /\ desired # <<>>
  /\ pcMon = "recv"
  /\ lastWrite.by = "monitor"
  /\ Get = Ready

\* C18: after construction the component table and the desired slice are
\* touched only by steps of the monitor goroutine: the desired slice never
\* changes, the table changes only in monitor's upsert step, and no step of
\* Set, a reporter callback, Serve, Close, the serve goroutine or the probe
\* handler changes either.
C18_SingleWriter ==
  /\ [][desired' = desired]_vars
  /\ [][comstat' # comstat => (pcMon = "upsert" /\ pcMon' = "check")]_vars
  /\ [][pcMon' = pcMon => (comstat' = comstat /\ desired' = desired)]_vars

\* a served HealthCheck with a probe in hand, a direct Set made, one event
\* in the table and monitor holding the next
C18_Witness ==
  /\ srv = "serving"
  /\ resp # NoResp
  /\ lastWrite.by = "Set"
  /\ Cardinality(DOMAIN comstat) = 1
  /\ pcMon = "upsert"
  /\ \E r \in Reporters : calls[r] = 2

\* C19: a HealthCheck constructed without an event source has no engine task
\* left running or blocked.
C19_NoEngineWithoutSource ==
  chanCap = NilChan => pcMon \notin {"recv", "upsert", "check"}

\* C20: monitor only ever stores Ready or Unavailable, so Broken and Fail
\* are seen only as the initial value or after a direct Set (that of the
\* serve goroutine included) no processed event has followed yet.
C20_EngineWritesReadyOrUnavailable ==
  /\ [][MonitorFinishes => Get' \in {Ready, Unavailable}]_vars
  /\ [](Get \in {Broken, Fail} => lastWrite.by \in {"New", "Set", "serve"})
  /\ [](lastWrite.by = "monitor" => Get \in {Ready, Unavailable})

\* the Broken stored by the serve goroutine after a fault has been
\* overwritten by a processed event
C20_Witness ==
  /\ srv = "exitFault"
  /\ lastWrite.by = "monitor"
  /\ Len(processed) = 1
  /\ pcMon = "recv"
  /\ Get = Unavailable
====
